---- MODULE Spec2Model ----
(***************************************************************************)
(* Model of package fasta (src/fasta.go): the streaming Reader and the     *)
(* line-wrapping Writer.  Byte strings are sequences of one-character      *)
(* strings.  Records live on a heap (a sequence of Record values) and are  *)
(* referred to by index, 0 being the nil pointer, so that the pointer the  *)
(* Reader keeps and the pointer it hands out are the same object.          *)
(***************************************************************************)
EXTENDS Integers, Sequences, FiniteSets, TLC

VARIABLES pc, input, pos, rec, err, heap, results, ioFails,
          width, widthArg, sink, lastWrite

vars == <<pc, input, pos, rec, err, heap, results, ioFails,
          width, widthArg, sink, lastWrite>>

readerVars == <<input, pos, rec, err, heap, results, ioFails>>
writerVars == <<width, widthArg, sink, lastWrite>>

----------------------------------------------------------------------------
(* Bounds *)

MaxInputLen == 5
MaxReads == 6
MaxIOFail == 1
MaxNameLen == 1
MaxDataLen == 3
MaxWidth == 3
MaxCRLen == 4
MaxWrites == 2
MaxStreamLen == 2

----------------------------------------------------------------------------
(* Bytes and byte strings *)

Byte == {">", "A", " ", "\n"}

Space == {" ", "\n", "\t", "\r"}

Strings(n) == UNION {[1..k -> Byte] : k \in 0..n}

(* Input text that also holds carriage returns. *)
ByteCR == Byte \cup {"\r"}

StringsCR(n) == UNION {[1..k -> ByteCR] : k \in 0..n}

Nil == 0

NoErr == "nil"
EOF == "EOF"
FormatErr == "fasta: format error: sequence before header"
IOErr == "io error"

NoFail == 0 - 1

Abs(x) == IF x < 0 THEN 0 - x ELSE x

Min(a, b) == IF a < b THEN a ELSE b

----------------------------------------------------------------------------
(* bytes.TrimSpace *)

RECURSIVE TrimLeft(_)
TrimLeft(s) ==
    IF s # <<>> /\ Head(s) \in Space THEN TrimLeft(Tail(s)) ELSE s

RECURSIVE TrimRight(_)
TrimRight(s) ==
    IF s # <<>> /\ s[Len(s)] \in Space
    THEN TrimRight(SubSeq(s, 1, Len(s) - 1))
    ELSE s

TrimSpace_leftOnly(s) == TrimLeft(s)

TrimSpace(s) == TrimRight(TrimLeft(s))

----------------------------------------------------------------------------
(* bufio.Reader.ReadBytes('\n') over the stream in, read so far up to pos.  *)
(* f is NoFail, or the stream position at which the underlying reader      *)
(* fails with an error other than io.EOF after delivering in[1..f].         *)

NewlineAfter(in, p) ==
    LET S == {i \in (p + 1)..Len(in) : in[i] = "\n"}
    IN IF S = {} THEN 0 ELSE CHOOSE i \in S : \A j \in S : i <= j

ReadBytes(in, p, f) ==
    LET nl == NewlineAfter(in, p)
        lim == IF f = NoFail THEN Len(in) ELSE f
    IN IF nl # 0 /\ nl <= lim
       THEN [line |-> SubSeq(in, p + 1, nl), pos |-> nl, err |-> NoErr]
       ELSE IF f # NoFail
            THEN [line |-> SubSeq(in, p + 1, f), pos |-> f, err |-> IOErr]
            ELSE [line |-> SubSeq(in, p + 1, Len(in)), pos |-> Len(in),
                  err |-> EOF]

----------------------------------------------------------------------------
(* Reader.Read *)

Ended_never(e) == FALSE

Ended(e) == e = EOF

HeaderOf_keepMarker(line) == line

HeaderOf(line) == Tail(line)

NewRecord(line) == [Header |-> HeaderOf(line), Sequence |-> <<>>]

StartRecord_reuse(hp, r, line) ==
    IF r = Nil
    THEN [heap |-> Append(hp, NewRecord(line)), rec |-> Len(hp) + 1]
    ELSE [heap |-> [hp EXCEPT ![r] = NewRecord(line)], rec |-> r]

(* r.rec = &Record{...}: a record newly allocated for each header line. *)
StartRecord(hp, r, line) ==
    [heap |-> Append(hp, NewRecord(line)), rec |-> Len(hp) + 1]

AppendSeq(hp, r, line) ==
    [hp EXCEPT ![r].Sequence = @ \o line]

(* The Reader after a Read and what the Read returned; io tells whether the *)
(* call saw the stream fail with an error other than io.EOF.                *)
Outcome(p, r, e, hp, retRec, retErr, panicked) ==
    [pos |-> p, rec |-> r, err |-> e, heap |-> hp, io |-> FALSE,
     ret |-> [rec |-> retRec, err |-> retErr, panic |-> panicked]]

ReadFailed_asEOF(p, r, e, hp, ioerr) ==
    [Outcome(p, r, EOF, hp, r, NoErr, FALSE) EXCEPT !.io = TRUE]

(* if err != io.EOF { return nil, err } *)
ReadFailed(p, r, e, hp, ioerr) ==
    [Outcome(p, r, e, hp, Nil, ioerr, FALSE) EXCEPT !.io = TRUE]

RECURSIVE ReadLoop(_, _, _, _, _, _)
ReadLoop(in, p, r, e, hp, f) ==
    LET rb == ReadBytes(in, p, f)
    IN IF rb.err # NoErr
       THEN IF rb.err # EOF
            THEN ReadFailed(rb.pos, r, e, hp, rb.err)
            ELSE IF Len(rb.line) > 0 /\ r = Nil
                 THEN Outcome(rb.pos, r, e, hp, Nil, NoErr, TRUE)
                 ELSE LET hp2 == IF Len(rb.line) > 0
                                 THEN AppendSeq(hp, r, rb.line)
                                 ELSE hp
                      IN Outcome(rb.pos, r, EOF, hp2, r, NoErr, FALSE)
       ELSE LET line == TrimSpace(rb.line)
            IN IF Len(line) = 0
               THEN ReadLoop(in, rb.pos, r, e, hp, f)
               ELSE IF line[1] # ">"
                    THEN IF r = Nil
                         THEN Outcome(rb.pos, r, e, hp, Nil, FormatErr, FALSE)
                         ELSE ReadLoop(in, rb.pos, r, e,
                                       AppendSeq(hp, r, line), f)
                    ELSE LET st == StartRecord(hp, r, line)
                         IN IF r # Nil
                            THEN Outcome(rb.pos, st.rec, e, st.heap, r, NoErr,
                                         FALSE)
                            ELSE ReadLoop(in, rb.pos, st.rec, e, st.heap, f)

ReadCall(in, p, r, e, hp, f) ==
    IF Ended(e)
    THEN Outcome(p, r, e, hp, Nil, EOF, FALSE)
    ELSE ReadLoop(in, p, r, e, hp, f)

----------------------------------------------------------------------------
(* NewWriter and Writer.Write *)

NewWriterWidth_raw(w) == w

NewWriterWidth(w) == IF w = 0 THEN 1 ELSE w

(* Go's i % width for i >= 0 and width # 0: the result has the sign of i.   *)
GoMod(i, w) == i % Abs(w)

BreakBefore_after(i, w) == GoMod(i + 1, w) = 0

BreakBefore(i, w) == GoMod(i, w) = 0

HeaderBytes_withBreak(name) == <<">">> \o name \o <<"\n">>

HeaderBytes(name) == <<">">> \o name

AddCount_overwrite(n, m) == m

AddCount(n, m) == n + m

Trailer_none == <<>>

(* The line-break written after the residues. *)
Trailer == <<"\n">>

Failed_ignored(e) == FALSE

(* if err != nil { return n, err } after each call on the sink. *)
Failed(e) == e # NoErr

(* One call w.w.Write(p), the k-th of this Write.  fail.at is the index of  *)
(* the call at which the sink fails (0: none); a failing call places and   *)
(* reports the first fail.n bytes of p.                                     *)
SinkWrite(snk, p, k, fail) ==
    IF fail.at = k
    THEN LET c == Min(fail.n, Len(p))
         IN [sink |-> snk \o SubSeq(p, 1, c), n |-> c, err |-> IOErr]
    ELSE [sink |-> snk \o p, n |-> Len(p), err |-> NoErr]

WriteOutcome(snk, n, e, panicked) ==
    [sink |-> snk, n |-> n, err |-> e, panic |-> panicked]

RECURSIVE WriteLoop(_, _, _, _, _, _, _)
WriteLoop(seq, i, w, snk, n, k, fail) ==
    IF i < Len(seq)
    THEN IF w = 0
         THEN WriteOutcome(snk, n, NoErr, TRUE)
         ELSE LET brk == BreakBefore(i, w)
                  a == IF brk
                       THEN SinkWrite(snk, <<"\n">>, k, fail)
                       ELSE [sink |-> snk, n |-> 0, err |-> NoErr]
                  n1 == IF brk THEN AddCount(n, a.n) ELSE n
                  k1 == IF brk THEN k + 1 ELSE k
              IN IF Failed(a.err)
                 THEN WriteOutcome(a.sink, n1, a.err, FALSE)
                 ELSE LET b == SinkWrite(a.sink, <<seq[i + 1]>>, k1, fail)
                          n2 == AddCount(n1, b.n)
                      IN IF Failed(b.err)
                         THEN WriteOutcome(b.sink, n2, b.err, FALSE)
                         ELSE WriteLoop(seq, i + 1, w, b.sink, n2, k1 + 1,
                                        fail)
    ELSE LET c == SinkWrite(snk, Trailer, k, fail)
         IN WriteOutcome(c.sink, AddCount(n, c.n), c.err, FALSE)

WriteCall(name, seq, w, snk, fail) ==
    LET h == SinkWrite(snk, HeaderBytes(name), 1, fail)
    IN IF Failed(h.err)
       THEN WriteOutcome(h.sink, h.n, h.err, FALSE)
       ELSE WriteLoop(seq, 0, w, h.sink, h.n, 2, fail)

(* Number of calls Write makes on the sink when none of them fails (with   *)
(* width 0 the first i%w.width panics, after the header alone).            *)
SinkCalls(seq, w) ==
    IF w = 0 /\ seq # <<>>
    THEN 1
    ELSE 2 + Len(seq)
           + Cardinality({i \in 0..(Len(seq) - 1) : BreakBefore(i, w)})

----------------------------------------------------------------------------
(* State machine *)

NoWrite == [called |-> FALSE, name |-> <<>>, seq |-> <<>>, n |-> 0,
            err |-> NoErr, panic |-> FALSE, before |-> <<>>,
            fail |-> [at |-> 0, n |-> 0], count |-> 0]

Init ==
    /\ pc = "start"
    /\ input = <<>>
    /\ pos = 0
    /\ rec = Nil
    /\ err = NoErr
    /\ heap = <<>>
    /\ results = <<>>
    /\ ioFails = 0
    /\ width = 0
    /\ widthArg = 0
    /\ sink = <<>>
    /\ lastWrite = NoWrite

NewReader ==
    /\ pc = "start"
    /\ \E f \in Strings(MaxInputLen) : input' = f
    /\ pos' = 0
    /\ rec' = Nil
    /\ err' = NoErr
    /\ heap' = <<>>
    /\ results' = <<>>
    /\ ioFails' = 0
    /\ pc' = "reader"
    /\ UNCHANGED writerVars

(* A stream supplied by the caller may fail; the bytes.Buffer the Writer    *)
(* filled only ever reports io.EOF.                                         *)
StreamMayFail == ~lastWrite.called

Read ==
    /\ pc = "reader"
    /\ Len(results) < MaxReads
    /\ \E f \in {NoFail} \cup
                (IF StreamMayFail /\ ioFails < MaxIOFail
                 THEN pos..Len(input) ELSE {}) :
         \E o \in {ReadCall(input, pos, rec, err, heap, f)} :
            /\ pos' = o.pos
            /\ rec' = o.rec
            /\ err' = o.err
            /\ heap' = o.heap
            /\ results' = Append(results, o.ret)
            /\ ioFails' = IF o.io THEN ioFails + 1 ELSE ioFails
    /\ UNCHANGED <<pc, input>>
    /\ UNCHANGED writerVars

(* NewWriter(w, width) over a sink that may already hold bytes. *)
NewWriter ==
    /\ pc = "start"
    /\ \E w \in (0 - 1)..MaxWidth :
         /\ widthArg' = w
         /\ width' = NewWriterWidth(w)
    /\ \E b \in {<<>>, <<"A">>} : sink' = b
    /\ lastWrite' = NoWrite
    /\ pc' = "writer"
    /\ UNCHANGED readerVars

(* Write(s) on a sink whose at-th write call fails (at = 0: no call fails), *)
(* placing and reporting short bytes.                                       *)
Write ==
    /\ pc = "writer"
    /\ \E name \in Strings(MaxNameLen), seq \in Strings(MaxDataLen) :
         \E at \in 0..SinkCalls(seq, width), short \in 0..1 :
            /\ at = 0 => short = 0
            /\ \E o \in {WriteCall(name, seq, width, sink,
                                     [at |-> at, n |-> short])} :
                  /\ sink' = o.sink
                  /\ lastWrite' = [called |-> TRUE, name |-> name,
                                   seq |-> seq, n |-> o.n, err |-> o.err,
                                   panic |-> o.panic, before |-> sink,
                                   fail |-> [at |-> at, n |-> short],
                                   count |-> 1]
    /\ pc' = "written"
    /\ UNCHANGED <<width, widthArg>>
    /\ UNCHANGED readerVars

(* NewReader over the bytes a successful Write left in a fresh sink (a      *)
(* bytes.Buffer).                                                           *)
NewReaderOnSink ==
    /\ pc = "written"
    /\ lastWrite.err = NoErr
    /\ lastWrite.before = <<>>
    /\ input' = sink
    /\ pos' = 0
    /\ rec' = Nil
    /\ err' = NoErr
    /\ heap' = <<>>
    /\ results' = <<>>
    /\ ioFails' = 0
    /\ pc' = "reader"
    /\ UNCHANGED writerVars

(* NewReader over text with carriage returns. *)
NewReaderCR ==
    /\ pc = "start"
    /\ \E f \in StringsCR(MaxCRLen) : input' = f
    /\ pos' = 0
    /\ rec' = Nil
    /\ err' = NoErr
    /\ heap' = <<>>
    /\ results' = <<>>
    /\ ioFails' = 0
    /\ pc' = "reader"
    /\ UNCHANGED writerVars

(* The records of a stream of several Writes on one Writer. *)
StreamNames == {<<>>, <<"A">>}

StreamData == UNION {[1..k -> {"A", "\n"}] : k \in 0..MaxStreamLen}

(* Write(s), the first or a further one on the same Writer and sink, none   *)
(* of whose calls on the sink fails.                                        *)
WriteNext ==
    /\ pc \in {"writer", "written"}
    /\ lastWrite.count < MaxWrites
    /\ lastWrite.err = NoErr
    /\ \E name \in StreamNames, seq \in StreamData :
         \E o \in {WriteCall(name, seq, width, sink, [at |-> 0, n |-> 0])} :
            /\ sink' = o.sink
            /\ lastWrite' = [called |-> TRUE, name |-> name, seq |-> seq,
                             n |-> o.n, err |-> o.err, panic |-> o.panic,
                             before |-> sink, fail |-> [at |-> 0, n |-> 0],
                             count |-> lastWrite.count + 1]
    /\ pc' = "written"
    /\ UNCHANGED <<width, widthArg>>
    /\ UNCHANGED readerVars

Next == NewReader \/ Read \/ NewWriter \/ Write \/ NewReaderOnSink

Spec == Init /\ [][Next]_vars

NextCR == NewReaderCR \/ Read

SpecCR == Init /\ [][NextCR]_vars

NextStream == NewWriter \/ WriteNext

SpecStream == Init /\ [][NextStream]_vars

----------------------------------------------------------------------------
(* Vocabulary of the properties *)

(* The value of a Read result: what the caller sees through the pointer. *)
ResVal(r) ==
    [hasRec |-> r.rec # Nil,
     name |-> IF r.rec # Nil THEN heap[r.rec].Header ELSE <<>>,
     data |-> IF r.rec # Nil THEN heap[r.rec].Sequence ELSE <<>>,
     err |-> r.err,
     panic |-> r.panic]

RecVal(name, data) ==
    [hasRec |-> TRUE, name |-> name, data |-> data, err |-> NoErr,
     panic |-> FALSE]

EOFVal ==
    [hasRec |-> FALSE, name |-> <<>>, data |-> <<>>, err |-> EOF,
     panic |-> FALSE]

FormatErrVal ==
    [hasRec |-> FALSE, name |-> <<>>, data |-> <<>>, err |-> FormatErr,
     panic |-> FALSE]

(* The lines of an input: the text between line-breaks, the unterminated    *)
(* text after the last line-break included when there is any.               *)
RECURSIVE SplitLines(_)
SplitLines(s) ==
    IF s = <<>>
    THEN <<>>
    ELSE LET S == {i \in 1..Len(s) : s[i] = "\n"}
         IN IF S = {}
            THEN <<s>>
            ELSE LET nl == CHOOSE i \in S : \A j \in S : i <= j
                 IN <<SubSeq(s, 1, nl - 1)>> \o
                    SplitLines(SubSeq(s, nl + 1, Len(s)))

Strip(s) ==
    LET K == {i \in 1..Len(s) : s[i] \notin Space}
    IN IF K = {}
       THEN <<>>
       ELSE SubSeq(s, CHOOSE i \in K : \A j \in K : i <= j,
                      CHOOSE i \in K : \A j \in K : i >= j)

RECURSIVE NonBlankLines(_)
NonBlankLines(ls) ==
    IF ls = <<>>
    THEN <<>>
    ELSE LET t == Strip(Head(ls))
         IN IF t = <<>>
            THEN NonBlankLines(Tail(ls))
            ELSE <<t>> \o NonBlankLines(Tail(ls))

LinesOf(in) == NonBlankLines(SplitLines(in))

IsHeader(line) == line[1] = ">"

(* The records an input denotes: one per header line, with the data lines   *)
(* up to the next header concatenated.                                      *)
RECURSIVE Group(_, _)
Group(ls, acc) ==
    IF ls = <<>>
    THEN acc
    ELSE IF IsHeader(Head(ls))
         THEN Group(Tail(ls), Append(acc, RecVal(Tail(Head(ls)), <<>>)))
         ELSE Group(Tail(ls),
                    [acc EXCEPT ![Len(acc)].data = @ \o Head(ls)])

HeaderFirst(in) == LinesOf(in) # <<>> /\ IsHeader(LinesOf(in)[1])

DataFirst(in) == LinesOf(in) # <<>> /\ ~IsHeader(LinesOf(in)[1])

ExpectedRecords(in) == Group(LinesOf(in), <<>>)

Unterminated(in) == in # <<>> /\ in[Len(in)] # "\n"

(* The values of the first k results of Read on a stream that never fails. *)
RECURSIVE RunReads(_, _, _, _, _, _)
RunReads(in, p, r, e, hp, k) ==
    IF k = 0
    THEN <<>>
    ELSE LET o == ReadCall(in, p, r, e, hp, NoFail)
             v == [hasRec |-> o.ret.rec # Nil,
                   name |-> IF o.ret.rec # Nil
                            THEN o.heap[o.ret.rec].Header ELSE <<>>,
                   data |-> IF o.ret.rec # Nil
                            THEN o.heap[o.ret.rec].Sequence ELSE <<>>,
                   err |-> o.ret.err,
                   panic |-> o.ret.panic]
         IN <<v>> \o RunReads(in, o.pos, o.rec, o.err, o.heap, k - 1)

ReadSeq(in, k) == RunReads(in, 0, Nil, NoErr, <<>>, k)

ResVals == [i \in 1..Len(results) |-> ResVal(results[i])]

Reading == pc = "reader"

(* The bytes the last Write placed on the sink. *)
Emitted == SubSeq(sink, Len(lastWrite.before) + 1, Len(sink))

WriteOK == lastWrite.called /\ lastWrite.err = NoErr /\ ~lastWrite.panic

(* Line-breaks Write emits for l residues at width w: one before each line  *)
(* of residues and the final one.                                           *)
Breaks(l, w) == ((l + w - 1) \div w) + 1

----------------------------------------------------------------------------
(* C1: every Read returns exactly one of a non-nil record and a non-nil    *)
(* error: never both, never neither, on every input and at every call.     *)
C1_ExactlyOne ==
    Reading =>
        \A i \in 1..Len(results) :
            /\ ~results[i].panic
            /\ (results[i].rec # Nil) # (results[i].err # NoErr)

(* C2: an input whose first non-blank line is a header and that has N       *)
(* header lines yields N records in order, the k-th with the k-th header's  *)
(* text as name and its trimmed data lines concatenated as data, and then   *)
(* the end-of-stream signal.                                                *)
C2_RecordsInOrder ==
    (Reading /\ ioFails = 0 /\ HeaderFirst(input)) =>
        LET exp == ExpectedRecords(input)
        IN \A i \in 1..Len(results) :
               IF i <= Len(exp)
               THEN ResVal(results[i]) = exp[i]
               ELSE ResVal(results[i]) = EOFVal

(* C3: the ended state is absorbing: once the Reader has recorded the end  *)
(* of input, every Read returns a nil record with io.EOF, and neither the   *)
(* stream position nor any record changes.                                  *)
C3_EndedAbsorbing ==
    [][(Reading /\ err = EOF) =>
          /\ err' = EOF
          /\ pos' = pos
          /\ rec' = rec
          /\ heap' = heap
          /\ results' # results =>
                results' = Append(results,
                                  [rec |-> Nil, err |-> EOF, panic |-> FALSE])
      ]_vars

C3_Witness ==
    /\ Reading
    /\ err = EOF
    /\ Len(results) >= 4
    /\ ResVal(results[1]).hasRec
    /\ ResVal(results[2]).hasRec
    /\ ResVal(results[3]) = EOFVal
    /\ ResVal(results[4]) = EOFVal

(* C4: an input whose final line has no line-break yields the same results  *)
(* as the same input with a line-break appended.                            *)
C4_FinalNewlineOptional ==
    (Reading /\ ioFails = 0 /\ Unterminated(input)) =>
        ResVals = ReadSeq(input \o <<"\n">>, Len(results))

(* C5: when a data line precedes every header line, the first Read returns  *)
(* a nil record and the "sequence before header" format error.              *)
C5_DataBeforeHeader ==
    (Reading /\ ioFails = 0 /\ DataFirst(input) /\ Len(results) >= 1) =>
        ResVal(results[1]) = FormatErrVal

(* C6: a successful Write at width w >= 1 emits '>' and the name, then      *)
(* each residue d[i] in order with a line-break immediately before it       *)
(* whenever i mod w = 0, then one final line-break, and nothing else.       *)
C6_WrapAtWidth ==
    (WriteOK /\ width >= 1) =>
        LET nm == lastWrite.name
            d == lastWrite.seq
            at(i) == 1 + Len(nm) + (i \div width) + 1 + i + 1
        IN /\ Len(Emitted) = 1 + Len(nm) + Len(d) + Breaks(Len(d), width)
           /\ Emitted[1] = ">"
           /\ \A j \in 1..Len(nm) : Emitted[1 + j] = nm[j]
           /\ \A i \in 0..(Len(d) - 1) :
                 /\ Emitted[at(i)] = d[i + 1]
                 /\ i % width = 0 => Emitted[at(i) - 1] = "\n"
           /\ Emitted[Len(Emitted)] = "\n"

C6_Witness ==
    /\ WriteOK
    /\ width = 2
    /\ lastWrite.name = <<"A">>
    /\ lastWrite.seq = <<"A", " ", ">">>
    /\ Emitted = <<">", "A", "\n", "A", " ", "\n", ">", "\n">>

(* C7: a Writer constructed with width 0 behaves as one of width 1: every   *)
(* Write has the output, count and error of a width-1 Write, with one       *)
(* residue per line.                                                        *)
C7_ZeroWidthIsOne ==
    (lastWrite.called /\ widthArg = 0) =>
        LET one == WriteCall(lastWrite.name, lastWrite.seq, 1,
                             lastWrite.before, lastWrite.fail)
        IN /\ ~lastWrite.panic
           /\ sink = one.sink
           /\ lastWrite.n = one.n
           /\ lastWrite.err = one.err
           /\ lastWrite.err = NoErr =>
                 /\ Len(Emitted) =
                        1 + Len(lastWrite.name) + 2 * Len(lastWrite.seq) + 1
                 /\ \A i \in 1..Len(lastWrite.seq) :
                       /\ Emitted[1 + Len(lastWrite.name) + 2 * i - 1] = "\n"
                       /\ Emitted[1 + Len(lastWrite.name) + 2 * i] =
                              lastWrite.seq[i]

C7_Witness ==
    /\ WriteOK
    /\ widthArg = 0
    /\ lastWrite.seq = <<"A", ">", "A">>
    /\ Emitted = <<">", "\n", "A", "\n", ">", "\n", "A", "\n">>

(* A record FASTA text can carry: a name without line-break or trailing     *)
(* whitespace, data without line-break, without leading or trailing        *)
(* whitespace and not beginning with the header marker.                     *)
Representable(nm, d) ==
    /\ \A i \in 1..Len(nm) : nm[i] # "\n"
    /\ nm # <<>> => nm[Len(nm)] \notin Space
    /\ \A i \in 1..Len(d) : d[i] # "\n"
    /\ d # <<>> => (d[1] \notin Space /\ d[Len(d)] \notin Space /\ d[1] # ">")

RoundTrip ==
    /\ Reading
    /\ WriteOK
    /\ lastWrite.before = <<>>
    /\ widthArg >= Len(lastWrite.seq)

RoundTripResults ==
    \A i \in 1..Len(results) :
        IF i = 1
        THEN ResVal(results[i]) = RecVal(lastWrite.name, lastWrite.seq)
        ELSE ResVal(results[i]) = EOFVal

(* C8: original statement: writing any record at a width at least the      *)
(* length of its data and reading the bytes back yields that record, then   *)
(* end-of-stream.                                                           *)
C8_RoundTripAnyRecord == RoundTrip => RoundTripResults

(* C8: amended: the round trip returns the record, then end-of-stream, for  *)
(* every record whose name has no line-break and no trailing whitespace     *)
(* and whose data has no line-break, no leading or trailing whitespace and  *)
(* does not begin with '>'.                                                 *)
C8_RoundTrip ==
    (RoundTrip /\ Representable(lastWrite.name, lastWrite.seq)) =>
        RoundTripResults

C8_Witness ==
    /\ RoundTrip
    /\ lastWrite.name = <<" ", "A">> \/ lastWrite.name = <<"A">>
    /\ lastWrite.seq = <<"A", " ", ">">>
    /\ widthArg = MaxWidth
    /\ Len(results) >= 2
    /\ RoundTripResults

(* C9: original statement: a record without residues is written as the     *)
(* header and two line-breaks, and the count is 1 + length(name) + 2.       *)
C9_EmptyTwoBreaks ==
    (WriteOK /\ lastWrite.seq = <<>>) =>
        /\ Emitted = <<">">> \o lastWrite.name \o <<"\n", "\n">>
        /\ lastWrite.n = 1 + Len(lastWrite.name) + 2

(* C9: amended: a record without residues is written as the header and one  *)
(* line-break, and the count is 1 + length(name) + 1.                       *)
C9_EmptyOneBreak ==
    (WriteOK /\ lastWrite.seq = <<>>) =>
        /\ Emitted = <<">">> \o lastWrite.name \o <<"\n">>
        /\ lastWrite.n = 1 + Len(lastWrite.name) + 1

C9_Witness ==
    /\ WriteOK
    /\ lastWrite.seq = <<>>
    /\ lastWrite.name = <<"A">>
    /\ lastWrite.before = <<"A">>
    /\ sink = <<"A", ">", "A", "\n">>

(* C10: the count a successful Write returns is the number of bytes that    *)
(* call placed on the sink: 1 + length(name) + line-breaks + length(data).  *)
C10_CountIsBytesWritten ==
    WriteOK =>
        /\ SubSeq(sink, 1, Len(lastWrite.before)) = lastWrite.before
        /\ lastWrite.n = Len(sink) - Len(lastWrite.before)
        /\ lastWrite.n = 1 + Len(lastWrite.name) + Len(lastWrite.seq)
                           + Breaks(Len(lastWrite.seq), Abs(width))

C10_Witness ==
    /\ WriteOK
    /\ lastWrite.before = <<"A">>
    /\ Len(lastWrite.seq) = 3
    /\ Len(lastWrite.name) = 1
    /\ width = 2
    /\ lastWrite.n = 8
    /\ Len(sink) = 9

(* The text of a record at width w >= 1: the header, then the residues in   *)
(* lines of w, each line preceded by a line-break, then a line-break.       *)
FullOut(nm, d, w) ==
    LET h == 1 + Len(nm)
        L == h + Len(d) + Breaks(Len(d), w)
    IN [k \in 1..L |->
          IF k = 1 THEN ">"
          ELSE IF k <= h THEN nm[k - 1]
          ELSE IF k = L THEN "\n"
          ELSE LET j == k - h - 1
               IN IF j % (w + 1) = 0
                  THEN "\n"
                  ELSE d[(j \div (w + 1)) * w + (j % (w + 1))]]

(* Bytes the sink has reported before the at-th call of a Write, and the    *)
(* length of what that call is given: the header first, then single bytes.  *)
ReportedBefore(nm, at) == IF at = 1 THEN 0 ELSE 1 + Len(nm) + (at - 2)

CallLen(nm, at) == IF at = 1 THEN 1 + Len(nm) ELSE 1

SinkFailed == lastWrite.called /\ lastWrite.fail.at >= 1

(* C11: when a write on the sink fails during Write, Write makes no further *)
(* write on the sink, returns that error, and returns as count the sum of   *)
(* the counts the sink reported up to and including the failing write.      *)
C11_AbortOnSinkError ==
    SinkFailed =>
        LET nm == lastWrite.name
            at == lastWrite.fail.at
            c == Min(lastWrite.fail.n, CallLen(nm, at))
            full == FullOut(nm, lastWrite.seq, Abs(width))
        IN /\ lastWrite.err = IOErr
           /\ ~lastWrite.panic
           /\ lastWrite.n = ReportedBefore(nm, at) + c
           /\ sink = lastWrite.before \o SubSeq(full, 1, lastWrite.n)

C11_Witness ==
    /\ SinkFailed
    /\ lastWrite.name = <<"A">>
    /\ lastWrite.seq = <<"A", " ", ">">>
    /\ width = 2
    /\ lastWrite.fail = [at |-> 5, n |-> 1]
    /\ lastWrite.before = <<>>
    /\ lastWrite.n = 6
    /\ sink = <<">", "A", "\n", "A", " ", "\n">>

(* C12: a format error is fatal for the stream: once a Read has returned    *)
(* the "sequence before header" error, no later Read on the same Reader     *)
(* returns a record.                                                        *)
C12_FormatErrorFatal ==
    Reading =>
        \A i \in 1..Len(results) : \A j \in (i + 1)..Len(results) :
            results[i].err = FormatErr => results[j].rec = Nil

(* The lines of an input with their line-breaks kept. *)
RECURSIVE RawLines(_)
RawLines(s) ==
    IF s = <<>>
    THEN <<>>
    ELSE LET S == {i \in 1..Len(s) : s[i] = "\n"}
         IN IF S = {}
            THEN <<s>>
            ELSE LET nl == CHOOSE i \in S : \A j \in S : i <= j
                 IN <<SubSeq(s, 1, nl)>> \o RawLines(SubSeq(s, nl + 1, Len(s)))

RECURSIVE Concat(_)
Concat(ls) == IF ls = <<>> THEN <<>> ELSE Head(ls) \o Concat(Tail(ls))

NotBlank(l) == Strip(l) # <<>>

(* The input with every blank line removed, terminated or not. *)
WithoutBlankLines(in) == Concat(SelectSeq(RawLines(in), NotBlank))

HasBlankLine(in) == WithoutBlankLines(in) # in

(* C13: blank lines carry no meaning: an input and the same input with its  *)
(* blank lines removed (hence any two inputs that differ by blank lines     *)
(* only) give the same sequence of Read results.                            *)
C13_BlankLinesIgnored ==
    (Reading /\ ioFails = 0) =>
        ResVals = ReadSeq(WithoutBlankLines(input), Len(results))

(* C14: the Read that sees the stream fail with an error other than io.EOF  *)
(* returns a nil record with that error, and the Reader does not enter the  *)
(* ended state.                                                             *)
C14_StreamErrorPropagates ==
    [][ioFails' > ioFails =>
          /\ results' = Append(results,
                               [rec |-> Nil, err |-> IOErr, panic |-> FALSE])
          /\ err' = err
          /\ err' # EOF
      ]_vars

C14_Witness ==
    /\ Reading
    /\ ioFails = 1
    /\ Len(results) = 2
    /\ results[1].rec # Nil
    /\ results[2] = [rec |-> Nil, err |-> IOErr, panic |-> FALSE]
    /\ err = NoErr
    /\ pos < Len(input)

(* C15: a record that Read has returned is never modified by a later Read   *)
(* on the same Reader: its name and data stay as they were when returned.   *)
C15_ReturnedRecordFrozen ==
    [][Reading =>
          \A i \in 1..Len(results) :
              results[i].rec # Nil =>
                  heap'[results[i].rec] = heap[results[i].rec]
      ]_vars

C15_Witness ==
    /\ Reading
    /\ Len(results) >= 3
    /\ results[1].rec = 1
    /\ results[2].rec = 2
    /\ results[3].rec = Nil
    /\ heap[1] = [Header |-> <<>>, Sequence |-> <<>>]
    /\ heap[2] = [Header |-> <<>>, Sequence |-> <<"A">>]
    /\ rec = 2
    /\ ~lastWrite.called

Returned(i) == heap[results[i].rec]

Has(s, c) == \E k \in 1..Len(s) : s[k] = c

NoTrailingSpace(s) == s # <<>> => s[Len(s)] \notin Space

Alone(nm, d, w) == WriteCall(nm, d, w, <<>>, [at |-> 0, n |-> 0]).sink

(* C17: Write calls are independent: the width never changes after         *)
(* construction, and each Write on a Writer appends to the sink exactly     *)
(* what the record gives when written alone at that width (its text),       *)
(* returning the length of that part; so records written in order give the  *)
(* concatenation of their texts.                                            *)
C17_WritesIndependent ==
    [][/\ pc # "start" => width' = width
       /\ lastWrite'.count = lastWrite.count + 1 =>
             LET nm == lastWrite'.name
                 d == lastWrite'.seq
             IN /\ lastWrite'.err = NoErr
                /\ ~lastWrite'.panic
                /\ sink' = sink \o Alone(nm, d, width)
                /\ Alone(nm, d, width) = FullOut(nm, d, Abs(width))
                /\ lastWrite'.n = Len(FullOut(nm, d, Abs(width)))
      ]_vars

C17_Witness ==
    /\ lastWrite.count = 2
    /\ widthArg = 0
    /\ width = 1
    /\ lastWrite.before = <<">", "A", "\n", "A", "\n">>
    /\ lastWrite.name = <<>>
    /\ lastWrite.seq = <<"A", "A">>
    /\ lastWrite.n = 6
    /\ sink = <<">", "A", "\n", "A", "\n", ">", "\n", "A", "\n", "A", "\n">>

(* C18: Read never accesses a missing in-progress record: whenever it       *)
(* appends bytes to the record in progress, for a data line or for          *)
(* unterminated text at end-of-input, there is such a record.               *)
C18_NoMissingRecordAccess ==
    Reading => \A i \in 1..Len(results) : ~results[i].panic

====
